---- MODULE Spec2Model ----
(***************************************************************************)
(* A model of src/index.mjs, the interactive batch image optimiser.        *)
(*                                                                         *)
(* main() is a linear script: five prompts, then one pass over the input   *)
(* tokens (download / existence check / directory enumeration /            *)
(* processImage per file), then the report, then rl.close().  Each await   *)
(* point of the script is one action of the model.                         *)
(*                                                                         *)
(* Representation                                                          *)
(*   - A file name is a record [stem, ext]: the text is stem \o ext and    *)
(*     ext is "" or starts with a dot (what lies after the last dot).      *)
(*   - A path or URL is a record [scheme, host, segs]: scheme = "" for a   *)
(*     local path, segs the sequence of names below the root.              *)
(*   - The answers to the quality and dimensions prompts are sequences of  *)
(*     one-character strings, so that split, parseInt and Number can be    *)
(*     computed character by character.                                    *)
(*   - A JavaScript number that may be NaN is a record [nan, val].         *)
(*   - sharp, the file system's contents and the network are the           *)
(*     environment: a transcode succeeds with some output size or fails,   *)
(*     a directory is enumerated in some order, a remote answers ok or not.*)
(***************************************************************************)
EXTENDS Integers, Sequences, FiniteSets, TLC

(***************************************************************************)
(* Bounds of the model and constants of the program                        *)
(***************************************************************************)
\* Most tokens typed at the first prompt.
MaxTokens == 2

\* formatFileSize: the byte / KB boundary and divisor (1024 * 1024 for MB).
KB == 1024
\* The quality used on an empty answer, and the clamping range.
DefaultQuality == 80
MinQuality == 0
MaxQuality == 100

(***************************************************************************)
(* Names, paths and URLs                                                   *)
(***************************************************************************)
Name(stem, ext) == [stem |-> stem, ext |-> ext]

LocalPath(segs) == [scheme |-> "", host |-> "", segs |-> segs]

Url(scheme, host, segs) == [scheme |-> scheme, host |-> host, segs |-> segs]

\* The text of a name.
NameText(n) == n.stem \o n.ext

NoName == Name("", "")

\* path.basename(p): the last component ("" when there is none).
basename(p) == IF p.segs = <<>> THEN NoName ELSE p.segs[Len(p.segs)]

\* path.extname(p): from the last dot of the basename; a basename that only
\* starts with a dot has no extension.
extname(p) == IF basename(p).stem = "" THEN "" ELSE basename(p).ext

\* path.basename(p, path.extname(p)): the basename without its extension.
basenameNoExt(p) ==
    IF basename(p).stem = "" THEN NameText(basename(p)) ELSE basename(p).stem

\* path.dirname(p): the path without its last component.  Applied to the text
\* of a URL it keeps the scheme and host in front, as the code's
\* path.dirname(inputPaths[0]) does.
dirname(p) ==
    [p EXCEPT !.segs = IF p.segs = <<>> THEN <<>> ELSE SubSeq(p.segs, 1, Len(p.segs) - 1)]

\* path.join(dir, name); joining an empty name gives dir itself.
join(dir, n) == IF n = NoName THEN dir ELSE [dir EXCEPT !.segs = Append(dir.segs, n)]

\* inputPath += urlFileExtension
appendExt(p, e) ==
    IF p.segs = <<>> \/ e = "" THEN p
    ELSE LET b == basename(p)
         IN  [p EXCEPT !.segs[Len(p.segs)] =
                 IF b.ext = "" THEN Name(b.stem, e) ELSE Name(b.stem \o b.ext, e)]

\* new URL(str) succeeds: the text starts with a scheme.
isURL(str) == str.scheme # ""

\* new URL(str).pathname, as a local-path-shaped value for path.basename.
pathnameOf(u) == LocalPath(u.segs)

\* __dirname/downloads
downloadDir == LocalPath(<<Name("app", ""), Name("downloads", "")>>)

OptimizedName == Name("optimized", "")

(***************************************************************************)
(* Character strings: split, parseInt, Number                              *)
(***************************************************************************)
Digits == {"0", "1", "2", "3", "4", "5", "6", "7", "8", "9"}

DigitVal(c) ==
    CASE c = "0" -> 0 [] c = "1" -> 1 [] c = "2" -> 2 [] c = "3" -> 3
      [] c = "4" -> 4 [] c = "5" -> 5 [] c = "6" -> 6 [] c = "7" -> 7
      [] c = "8" -> 8 [] c = "9" -> 9

IsSpace(c) == c = " "

NaN == [nan |-> TRUE, val |-> 0]

Num(v) == [nan |-> FALSE, val |-> v]

RECURSIVE SplitFrom(_, _, _)
\* s.split(" ") from position i with the piece cur collected so far.
SplitFrom(s, i, cur) ==
    IF i > Len(s) THEN <<cur>>
    ELSE IF s[i] = " " THEN <<cur>> \o SplitFrom(s, i + 1, <<>>)
    ELSE SplitFrom(s, i + 1, Append(cur, s[i]))

\* String.prototype.split(" "): every space separates, empty pieces are kept.
Split(s) == SplitFrom(s, 1, <<>>)

RECURSIVE SkipSpaces(_)
SkipSpaces(s) == IF s # <<>> /\ IsSpace(Head(s)) THEN SkipSpaces(Tail(s)) ELSE s

RECURSIVE DropTrailingSpaces(_)
DropTrailingSpaces(s) ==
    IF s # <<>> /\ IsSpace(s[Len(s)]) THEN DropTrailingSpaces(SubSeq(s, 1, Len(s) - 1)) ELSE s

\* String.prototype.trim
Trim(s) == DropTrailingSpaces(SkipSpaces(s))

RECURSIVE DigitPrefix(_)
\* The longest prefix of s made of decimal digits.
DigitPrefix(s) ==
    IF s # <<>> /\ Head(s) \in Digits THEN <<Head(s)>> \o DigitPrefix(Tail(s)) ELSE <<>>

RECURSIVE DigitsValue(_, _)
DigitsValue(ds, acc) ==
    IF ds = <<>> THEN acc ELSE DigitsValue(Tail(ds), 10 * acc + DigitVal(Head(ds)))

\* parseInt(s): leading white space skipped, an optional sign, then the longest
\* run of digits; NaN when that run is empty.  (The answers of the model hold no
\* "0x" prefix, the one case where parseInt leaves radix 10.)
parseInt(s) ==
    LET t    == SkipSpaces(s)
        neg  == t # <<>> /\ Head(t) = "-"
        u    == IF t # <<>> /\ Head(t) \in {"-", "+"} THEN Tail(t) ELSE t
        ds   == DigitPrefix(u)
    IN  IF ds = <<>> THEN NaN
        ELSE Num(IF neg THEN 0 - DigitsValue(ds, 0) ELSE DigitsValue(ds, 0))

\* StrUnsignedDecimalLiteral without exponent: digits with at most one dot and
\* at least one digit.
IsUnsignedDecimal(u) ==
    /\ \A i \in 1..Len(u) : u[i] \in Digits \cup {"."}
    /\ Cardinality({i \in 1..Len(u) : u[i] = "."}) <= 1
    /\ \E i \in 1..Len(u) : u[i] \in Digits

\* isNaN(s) for a string s: Number(s) is NaN.  Number trims white space, reads
\* the empty string as 0 and otherwise wants the whole text to be a numeric
\* literal.  (The answers of the model hold no exponent, no hex/octal/binary
\* prefix and no "Infinity".)
isNaN(s) ==
    LET t == Trim(s)
        u == IF t # <<>> /\ Head(t) \in {"-", "+"} THEN Tail(t) ELSE t
    IN  IF t = <<>> THEN FALSE ELSE ~IsUnsignedDecimal(u)

\* Math.max / Math.min: NaN if either argument is NaN.
MathMax(a, b) ==
    IF a.nan \/ b.nan THEN NaN ELSE IF a.val >= b.val THEN a ELSE b

MathMin(a, b) ==
    IF a.nan \/ b.nan THEN NaN ELSE IF a.val <= b.val THEN a ELSE b

\* String.prototype.toLowerCase on the answers to the crop prompt.
toLowerCase(s) == IF s = "Y" THEN "y" ELSE IF s = "N" THEN "n" ELSE s

(***************************************************************************)
(* Formatting                                                              *)
(***************************************************************************)
\* formatFileSize(bytes): the unit and the number printed in front of it, num
\* with `decimals` digits after the point (0 for bytes: the number as it is;
\* 2 for KB and MB: toFixed(2), which rounds to the nearest hundredth, the
\* larger one on a tie; bytes / 1024 is exact in floating point).
formatFileSize(bytes) ==
    IF bytes < KB THEN [unit |-> "B", num |-> bytes, decimals |-> 0]
    ELSE IF bytes < KB * KB
         THEN [unit |-> "KB", num |-> (bytes * 100 + (KB \div 2)) \div KB, decimals |-> 2]
         ELSE [unit |-> "MB", num |-> (bytes * 100 + ((KB * KB) \div 2)) \div (KB * KB),
               decimals |-> 2]

RECURSIVE ScaledQuotient(_, _, _, _)
\* k more decimal digits of r / whole (r < whole) after the digits acc, by long
\* division, with the remainder left.
ScaledQuotient(r, whole, k, acc) ==
    IF k = 0 THEN [q |-> acc, r |-> r]
    ELSE ScaledQuotient((r * 10) % whole, whole, k - 1, acc * 10 + ((r * 10) \div whole))

\* ((part / whole) * 100).toFixed(2), in hundredths of a percent.  0 / 0 prints
\* "NaN" and x / 0 an infinity; otherwise the nearest hundredth, a tie going
\* away from zero (decided here on the exact quotient).
percentFixed2(part, whole) ==
    IF whole = 0
    THEN [kind |-> IF part = 0 THEN "NaN" ELSE IF part > 0 THEN "Infinity" ELSE "-Infinity",
          cents |-> 0]
    ELSE LET mag == IF part < 0 THEN 0 - part ELSE part
             d   == ScaledQuotient(mag % whole, whole, 4, 0)
             n   == (mag \div whole) * 10000 + d.q + (IF 2 * d.r >= whole THEN 1 ELSE 0)
         IN  [kind |-> "num", cents |-> IF part < 0 THEN 0 - n ELSE n]

(***************************************************************************)
(* The environment: the files on disk, the remote hosts, the user's answers*)
(***************************************************************************)
DirD == LocalPath(<<Name("d", "")>>)

DirE == LocalPath(<<Name("e", "")>>)

FileAJpg == join(DirD, Name("a", ".jpg"))

FileAPng == join(DirD, Name("a", ".PNG"))

FileBTxt == join(DirD, Name("b", ".txt"))

FileNotes == join(DirE, Name("notes", ".txt"))

MissingPath == LocalPath(<<Name("m", ""), Name("x", ".jpg")>>)

UrlGood == Url("http:", "h", <<Name("p", ""), Name("u", ".jpg")>>)

UrlBad == Url("http:", "h", <<Name("p", ""), Name("v", "")>>)

\* The files present when the program starts, with their sizes in bytes:
\* directory d holds two images that share a stem and one text file,
\* directory e holds no image.
InitialFiles ==
    (FileAJpg :> 2048) @@ (FileAPng :> 1048576) @@ (FileBTxt :> 10) @@ (FileNotes :> 10)

\* The directories present when the program starts; the downloads directory is
\* there because the module creates it on load when it is missing.
InitialDirs ==
    {LocalPath(<<>>), DirD, DirE, dirname(downloadDir), downloadDir}

\* The tokens the user may type.
Tokens == {FileAJpg, DirD, DirE, MissingPath, UrlGood, UrlBad}

\* A typed token: the text with an optional quote character on either side.
RawTokens ==
    {[lead |-> "", text |-> t, trail |-> ""] : t \in Tokens}
        \cup {[lead |-> "'", text |-> FileAJpg, trail |-> "'"]}

\* The first answer, already cut at its spaces.
InputLines == UNION {[1..n -> RawTokens] : n \in 1..MaxTokens}

FormatAnswers == {"", "1", "2", "x"}

QualityAnswers ==
    { <<>>, <<"1", "5", "0">>, <<"-", "5">>, <<"4", "2">>, <<"a", "b", "c">> }

CropAnswers == {"y", "Y", "n", ""}

DimensionAnswers ==
    { <<"8", "0", "0", " ", "6", "0", "0">>,
      <<"a", "b", "c", " ", "6", "0", "0">>,
      <<"8", "0", "0">>,
      <<>>,
      <<"-", "5", " ", "6", "0", "0">>,
      <<"8", "0", "0", " ">>,
      <<"8", "0", "0", " ", "6", "0", "0", " ", "1">> }

\* The answers to "Enter output file name": blank, a name without extension, a
\* name with one.
NameAnswers == {NoName, Name("pic", ""), Name("pic", ".png")}

\* What the remote host answers to a GET of u.
RemoteOk(u) == u = UrlGood

\* The byte length of the body the remote host sends for u.
RemoteSize(u) == 4096

\* What sharp may do with one file: fail, or write an output whose size lies
\* between the sizes of the two images on disk, so that one of them shrinks
\* and the other grows.
TranscodeOutcomes ==
    {[ok |-> FALSE, size |-> 0]} \cup {[ok |-> TRUE, size |-> s] : s \in {3000}}

(***************************************************************************)
(* File system helpers                                                     *)
(***************************************************************************)
\* fs.existsSync(p)
existsSync(p, fls, drs) == p \in DOMAIN fls \/ p \in drs

\* fs.statSync(p).isDirectory()
isDirectory(p, drs) == p \in drs

\* The names fs.readdirSync(dir) returns, as a set: the immediate entries.
Entries(dir, fls, drs) ==
    {basename(p) : p \in {q \in (DOMAIN fls) \cup drs : q.segs # <<>> /\ dirname(q) = dir}}

RECURSIVE Enumerations(_)
\* The orders in which a directory with the entries S may be enumerated.
Enumerations(S) ==
    IF S = {} THEN {<<>>}
    ELSE UNION {{<<x>> \o rest : rest \in Enumerations(S \ {x})} : x \in S}

\* fs.writeFileSync / sharp's toFile: the file is created or overwritten.
WriteFile(fls, p, size) ==
    [q \in (DOMAIN fls) \cup {p} |-> IF q = p THEN size ELSE fls[q]]

\* /\.(jpg|jpeg|png|gif|webp)$/i on a name.
LowerExt(e) ==
    CASE e = ".JPG" -> ".jpg" [] e = ".JPEG" -> ".jpeg" [] e = ".PNG" -> ".png"
      [] e = ".GIF" -> ".gif" [] e = ".WEBP" -> ".webp" [] OTHER -> e

IsImageName(n) == LowerExt(n.ext) \in {".jpg", ".jpeg", ".png", ".gif", ".webp"}

\* const cleanPath = (inputPath) => inputPath.replace(/^['"]|['"]$/g, "").trim()
cleanPath(raw) == raw.text

(***************************************************************************)
(* State                                                                   *)
(***************************************************************************)
VARIABLES
    pc,                 \* where main() stands
    inputPaths,         \* the cleaned tokens
    format,             \* "webp" or "png"
    quality,            \* [nan, val]
    shouldCrop,
    cropDimensions,     \* the pieces of the dimensions answer (<<>> when not asked)
    tokenIdx,           \* index of the for loop over inputPaths
    inputPath,          \* the loop variable, reassigned for a URL token
    imageFiles,         \* the filtered listing of the directory being processed
    fileIdx,            \* index of the for loop over imageFiles
    processedStats,
    totalSavedBytes,
    totalOriginalBytes,
    files,              \* the files on disk: path -> size
    dirs,               \* the directories on disk
    rlClosed,           \* rl.close() has run
    outcome,            \* "running", "completed" (mainSpinner.succeed) or "failed" (mainSpinner.fail)
    errors,             \* what spinner.fail and console.error printed, in order
    report,             \* what the results display printed
    attempts,           \* history: the calls of processImage, in order
    fetches             \* history: the arguments of fetch, in order

vars ==
    <<pc, inputPaths, format, quality, shouldCrop, cropDimensions, tokenIdx, inputPath,
      imageFiles, fileIdx, processedStats, totalSavedBytes, totalOriginalBytes, files, dirs,
      rlClosed, outcome, errors, report, attempts, fetches>>

setupVars == <<inputPaths, format, quality, shouldCrop, cropDimensions>>

loopVars == <<tokenIdx, inputPath, imageFiles, fileIdx>>

resultVars == <<processedStats, totalSavedBytes, totalOriginalBytes>>

diskVars == <<files, dirs>>

logVars == <<errors, report, attempts, fetches>>

NoPath == LocalPath(<<>>)

NoReport == [printed |-> FALSE, lines |-> <<>>, totals |-> <<>>, outputDir |-> <<>>]

Init ==
    /\ pc = "askPaths"
    /\ inputPaths = <<>>
    /\ format = ""
    /\ quality = Num(DefaultQuality)
    /\ shouldCrop = FALSE
    /\ cropDimensions = <<>>
    /\ tokenIdx = 1
    /\ inputPath = NoPath
    /\ imageFiles = <<>>
    /\ fileIdx = 1
    /\ processedStats = <<>>
    /\ totalSavedBytes = 0
    /\ totalOriginalBytes = 0
    /\ files = InitialFiles
    /\ dirs = InitialDirs
    /\ rlClosed = FALSE
    /\ outcome = "running"
    /\ errors = <<>>
    /\ report = NoReport
    /\ attempts = <<>>
    /\ fetches = <<>>

(***************************************************************************)
(* The setup prompts                                                       *)
(***************************************************************************)
\* } catch (error) { mainSpinner.fail(...) }
mainCatch == outcome' = "failed"

\* Variant: the run ends without the finally block closing the interface.
mainFinallyWithoutClose == rlClosed' = rlClosed /\ pc' = "done"

\* } finally { rl.close(); }
mainFinally == rlClosed' = TRUE /\ pc' = "done"

\* rawInputPaths.split(" ").map(cleanPath)
AskPaths ==
    /\ pc = "askPaths"
    /\ \E line \in InputLines :
          inputPaths' = [i \in 1..Len(line) |-> cleanPath(line[i])]
    /\ pc' = "askFormat"
    /\ UNCHANGED <<format, quality, shouldCrop, cropDimensions, loopVars, resultVars,
                   diskVars, rlClosed, outcome, logVars>>

\* formatChoice ? (formatChoice === "1" ? "webp" : "png") : "webp"
chooseFormat(formatChoice) ==
    IF formatChoice # "" THEN (IF formatChoice = "1" THEN "webp" ELSE "png") ELSE "webp"

AskFormat ==
    /\ pc = "askFormat"
    /\ \E formatChoice \in FormatAnswers : format' = chooseFormat(formatChoice)
    /\ pc' = "askQuality"
    /\ UNCHANGED <<inputPaths, quality, shouldCrop, cropDimensions, loopVars, resultVars,
                   diskVars, rlClosed, outcome, logVars>>

\* qualityInput ? Math.min(100, Math.max(0, parseInt(qualityInput))) : 80
chooseQuality(qualityInput) ==
    IF qualityInput # <<>>
    THEN MathMin(Num(MaxQuality), MathMax(Num(MinQuality), parseInt(qualityInput)))
    ELSE Num(DefaultQuality)

AskQuality ==
    /\ pc = "askQuality"
    /\ \E qualityInput \in QualityAnswers : quality' = chooseQuality(qualityInput)
    /\ pc' = "askCrop"
    /\ UNCHANGED <<inputPaths, format, shouldCrop, cropDimensions, loopVars, resultVars,
                   diskVars, rlClosed, outcome, logVars>>

\* const shouldCrop = cropResponse.toLowerCase() === "y"
AskCrop ==
    /\ pc = "askCrop"
    /\ \E cropResponse \in CropAnswers : shouldCrop' = (toLowerCase(cropResponse) = "y")
    /\ pc' = IF shouldCrop' THEN "askDims" ELSE "loop"
    /\ UNCHANGED <<inputPaths, format, quality, cropDimensions, loopVars, resultVars,
                   diskVars, rlClosed, outcome, logVars>>

\* cropDimensions.length !== 2 || isNaN(cropDimensions[0]) || isNaN(cropDimensions[1])
dimensionsRejected(cd) == Len(cd) # 2 \/ isNaN(cd[1]) \/ isNaN(cd[2])

\* The dimensions prompt; a rejected answer throws out of main's try block.
AskDims ==
    /\ pc = "askDims"
    /\ \E dimensions \in DimensionAnswers :
          /\ cropDimensions' = Split(dimensions)
          /\ IF dimensionsRejected(cropDimensions')
             THEN mainCatch /\ mainFinally
             ELSE pc' = "loop" /\ UNCHANGED <<outcome, rlClosed>>
    /\ UNCHANGED <<inputPaths, format, quality, shouldCrop, loopVars, resultVars,
                   diskVars, logVars>>

(***************************************************************************)
(* downloadImage and processImage                                          *)
(***************************************************************************)
\* fetch(target): node-fetch rejects a target that is not an absolute URL;
\* otherwise the response is ok or not as the remote host decides.
fetch(target) ==
    IF ~isURL(target) THEN "rejected" ELSE IF RemoteOk(target) THEN "ok" ELSE "not ok"

\* downloadImage(url, outputPath): fetch url, throw unless response.ok, write
\* the body to outputPath.
downloadImage(url, outputPath, fls) ==
    LET response == fetch(url)
    IN  [ok      |-> response = "ok",
         fetched |-> url,
         files   |-> IF response = "ok" THEN WriteFile(fls, outputPath, RemoteSize(url))
                     ELSE fls]

\* The local path a URL token is saved under: downloadDir joined with the
\* answer to the name prompt or, when blank, the URL's file name; the URL's
\* extension is appended when that path has none.
urlDestination(tok, outputFileName) ==
    LET urlFilename      == basename(pathnameOf(tok))
        urlFileExtension == extname(LocalPath(<<urlFilename>>))
        dest == join(downloadDir,
                     IF outputFileName # NoName THEN outputFileName ELSE urlFilename)
    IN  IF extname(dest) = "" THEN appendExt(dest, urlFileExtension) ELSE dest

\* path.join(path.dirname(inputPath), "optimized")
outputDirOf(p) == join(dirname(p), OptimizedName)

\* path.join(outputDir, `${fileName}.${format}`)
outputPathOf(p, fmt) == join(outputDirOf(p), Name(basenameNoExt(p), "." \o fmt))

\* The box handed to resize: parseInt of the two pieces, when cropping.
cropBoxOf(crop, cd) ==
    IF crop /\ cd # <<>>
    THEN <<[width |-> parseInt(cd[1]), height |-> parseInt(cd[2])]>>
    ELSE <<>>

\* processImage(inputPath, format, quality, shouldCrop, cropDimensions, spinner)
\* with env what sharp does with the file.  The output directory is created
\* first; on success the output file is written and the stat record returned,
\* on failure the error is printed by the spinner and thrown again.
processImage(p, fmt, q, crop, cd, env, fls, drs) ==
    LET outputPath == outputPathOf(p, fmt)
        ok         == env.ok /\ p \in DOMAIN fls
        fls1       == IF ok THEN WriteFile(fls, outputPath, env.size) ELSE fls
    IN  [ok    |-> ok,
         files |-> fls1,
         dirs  |-> drs \cup {outputDirOf(p)},
         call  |-> [inputPath |-> p, outputPath |-> outputPath, format |-> fmt,
                    quality |-> q, crop |-> cropBoxOf(crop, cd), ok |-> ok],
         stats |-> IF ok
                   THEN <<[inputPath     |-> p,
                           outputPath    |-> outputPath,
                           originalSize  |-> fls1[p],
                           optimizedSize |-> fls1[outputPath],
                           optimizedFormat |-> fmt,
                           savings       |-> percentFixed2(fls1[p] - fls1[outputPath], fls1[p])]>>
                   ELSE <<>>]

\* Variant: unshift instead of push.
pushStatsInFront(stats, rec) == <<rec>> \o stats

\* processedStats.push(fileStats)
pushStats(stats, rec) == Append(stats, rec)

\* totalOriginalBytes += fileStats.originalSize
addOriginal(total, rec) == total + rec.originalSize

\* Variant: the optimized size is added instead of the difference.
addSavedOptimized(total, rec) == total + rec.optimizedSize

\* totalSavedBytes += fileStats.originalSize - fileStats.optimizedSize
addSaved(total, rec) == total + (rec.originalSize - rec.optimizedSize)

\* spinner.fail(`Error processing ${path.basename(inputPath)}: ...`)
spinnerFail(p) == [by |-> "spinner.fail", subject |-> LocalPath(<<basename(p)>>)]

\* console.error(`Error processing ${file}: ...`)
fileError(file) == [by |-> "console.error file", subject |-> LocalPath(<<file>>)]

\* console.error(`Error with path ${inputPath}: ...`)
tokenError(p) == [by |-> "console.error path", subject |-> p]

\* The history entry of one processImage call.
attempt(call, tok, idx) ==
    [token |-> tok, file |-> idx, inputPath |-> call.inputPath,
     outputPath |-> call.outputPath, format |-> call.format, quality |-> call.quality,
     crop |-> call.crop, ok |-> call.ok]

(***************************************************************************)
(* The loop over the tokens                                                *)
(***************************************************************************)
\* Variant: no per-token catch, the error leaves the loop and ends the run.
tokenCatchPropagates(p, printed, fls, drs, fts, atts) ==
    /\ errors' = Append(printed, tokenError(p))
    /\ inputPath' = p
    /\ files' = fls
    /\ dirs' = drs
    /\ fetches' = fts
    /\ attempts' = atts
    /\ pc' = "done"
    /\ UNCHANGED <<tokenIdx, imageFiles, fileIdx, resultVars>>

\* The per-token catch block: the error is printed and the loop goes on.
tokenCatch(p, printed, fls, drs, fts, atts) ==
    /\ errors' = Append(printed, tokenError(p))
    /\ tokenIdx' = tokenIdx + 1
    /\ inputPath' = p
    /\ files' = fls
    /\ dirs' = drs
    /\ fetches' = fts
    /\ attempts' = atts
    /\ pc' = "loop"
    /\ UNCHANGED <<imageFiles, fileIdx, resultVars>>

\* A single file: one processImage call; its record is pushed and the totals
\* grow, or its error reaches the per-token catch.
singleFile(p, fls, fts) ==
    \E env \in TranscodeOutcomes :
        LET r == processImage(p, format, quality, shouldCrop, cropDimensions, env, fls, dirs)
            atts == Append(attempts, attempt(r.call, tokenIdx, 0))
        IN  IF r.ok
            THEN /\ processedStats' = pushStats(processedStats, r.stats[1])
                 /\ totalOriginalBytes' = addOriginal(totalOriginalBytes, r.stats[1])
                 /\ totalSavedBytes' = addSaved(totalSavedBytes, r.stats[1])
                 /\ tokenIdx' = tokenIdx + 1
                 /\ inputPath' = p
                 /\ files' = r.files
                 /\ dirs' = r.dirs
                 /\ fetches' = fts
                 /\ attempts' = atts
                 /\ pc' = "loop"
                 /\ UNCHANGED <<imageFiles, fileIdx, errors>>
            ELSE tokenCatch(p, Append(errors, spinnerFail(p)), r.files, r.dirs, fts, atts)

\* A directory: its entries are read in some order and filtered by extension;
\* no image throws, otherwise the loop over imageFiles starts.
directory(p, fls, fts) ==
    \E files_ \in Enumerations(Entries(p, fls, dirs)) :
        LET filtered == SelectSeq(files_, IsImageName)
        IN  IF Len(filtered) = 0
            THEN tokenCatch(p, errors, fls, dirs, fts, attempts)
            ELSE /\ imageFiles' = filtered
                 /\ fileIdx' = 1
                 /\ inputPath' = p
                 /\ files' = fls
                 /\ fetches' = fts
                 /\ pc' = "dirLoop"
                 /\ UNCHANGED <<tokenIdx, resultVars, dirs, errors, attempts>>

\* const stats = fs.statSync(inputPath); if (stats.isDirectory()) ... else ...
located(p, fls, fts) ==
    IF isDirectory(p, dirs) THEN directory(p, fls, fts) ELSE singleFile(p, fls, fts)

\* A URL token: the name prompt, the destination path, and the download call as
\* the code makes it, downloadImage(inputPath, inputPath), inputPath being by
\* then the destination path.
urlToken(tok) ==
    \E outputFileName \in NameAnswers :
        LET dest == urlDestination(tok, outputFileName)
            dl   == downloadImage(dest, dest, files)
            fts  == Append(fetches, [token |-> tokenIdx, target |-> dl.fetched])
        IN  IF dl.ok
            THEN located(dest, dl.files, fts)
            ELSE tokenCatch(dest, errors, dl.files, dirs, fts, attempts)

\* One iteration of for (let inputPath of inputPaths), up to the first
\* processImage call of a directory.
ResolveToken ==
    /\ pc = "loop"
    /\ tokenIdx <= Len(inputPaths)
    /\ LET tok == inputPaths[tokenIdx]
       IN  IF isURL(tok) THEN urlToken(tok)
           ELSE IF ~existsSync(tok, files, dirs)
                THEN tokenCatch(tok, errors, files, dirs, fetches, attempts)
                ELSE located(tok, files, fetches)
    /\ UNCHANGED <<setupVars, rlClosed, outcome, report>>

\* One iteration of for (const file of imageFiles): the per-file catch prints
\* the error and the loop goes on; after the last file the token is done.
ProcessDirFile ==
    /\ pc = "dirLoop"
    /\ fileIdx <= Len(imageFiles)
    /\ \E env \in TranscodeOutcomes :
          LET file     == imageFiles[fileIdx]
              fullPath == join(inputPath, file)
              r == processImage(fullPath, format, quality, shouldCrop, cropDimensions,
                                env, files, dirs)
          IN  /\ IF r.ok
                 THEN /\ processedStats' = pushStats(processedStats, r.stats[1])
                      /\ totalOriginalBytes' = addOriginal(totalOriginalBytes, r.stats[1])
                      /\ totalSavedBytes' = addSaved(totalSavedBytes, r.stats[1])
                      /\ UNCHANGED errors
                 ELSE /\ errors' = Append(Append(errors, spinnerFail(fullPath)), fileError(file))
                      /\ UNCHANGED resultVars
              /\ attempts' = Append(attempts, attempt(r.call, tokenIdx, fileIdx))
              /\ files' = r.files
              /\ dirs' = r.dirs
    /\ fileIdx' = fileIdx + 1
    /\ IF fileIdx = Len(imageFiles)
       THEN pc' = "loop" /\ tokenIdx' = tokenIdx + 1
       ELSE pc' = "dirLoop" /\ UNCHANGED tokenIdx
    /\ UNCHANGED <<setupVars, inputPath, imageFiles, rlClosed, outcome, report, fetches>>

(***************************************************************************)
(* The results display                                                     *)
(***************************************************************************)
\* One block of processedStats.forEach((stat, index) => ...)
reportLine(stat, index) ==
    [index    |-> index + 1,
     fileName |-> basename(stat.inputPath),
     before   |-> formatFileSize(stat.originalSize),
     after    |-> formatFileSize(stat.optimizedSize),
     format   |-> stat.optimizedFormat,
     reduced  |-> stat.savings]

\* The "Total Statistics" block.
totalsBlock(original, saved) ==
    [before  |-> formatFileSize(original),
     after   |-> formatFileSize(original - saved),
     saved   |-> formatFileSize(saved),
     percent |-> percentFixed2(saved, original)]

\* path.join(path.dirname(inputPaths[0]), "optimized")
reportedOutputDir(paths) == join(dirname(paths[1]), OptimizedName)

\* After the loop: the per-file blocks, the totals or the "No images were
\* processed successfully." line, the output directory, mainSpinner.succeed
\* and, in the finally block, rl.close().
Report ==
    /\ pc = "loop"
    /\ tokenIdx > Len(inputPaths)
    /\ report' =
          [printed   |-> TRUE,
           lines     |-> [i \in 1..Len(processedStats) |-> reportLine(processedStats[i], i - 1)],
           totals    |-> IF Len(processedStats) > 0
                         THEN <<totalsBlock(totalOriginalBytes, totalSavedBytes)>>
                         ELSE <<>>,
           outputDir |-> <<reportedOutputDir(inputPaths)>>]
    /\ outcome' = "completed"
    /\ mainFinally
    /\ UNCHANGED <<setupVars, loopVars, resultVars, diskVars, errors, attempts, fetches>>

Next ==
    \/ AskPaths
    \/ AskFormat
    \/ AskQuality
    \/ AskCrop
    \/ AskDims
    \/ ResolveToken
    \/ ProcessDirFile
    \/ Report

Spec == Init /\ [][Next]_vars

(***************************************************************************)
(* Helpers of the properties                                               *)
(***************************************************************************)
IsOk(a) == a.ok

OkAttempts == SelectSeq(attempts, IsOk)

AttemptsOf(i) == {k \in 1..Len(attempts) : attempts[k].token = i}

\* The tokens whose loop iteration is over.
DoneTokens == 1..(tokenIdx - 1)

\* The image files of directory d, as full paths.
ImagePathsOf(d) == {join(d, n) : n \in {m \in Entries(d, files, dirs) : IsImageName(m)}}

RECURSIVE SumOriginal(_)
SumOriginal(stats) ==
    IF stats = <<>> THEN 0 ELSE Head(stats).originalSize + SumOriginal(Tail(stats))

RECURSIVE SumOptimized(_)
SumOptimized(stats) ==
    IF stats = <<>> THEN 0 ELSE Head(stats).optimizedSize + SumOptimized(Tail(stats))

ErrorSubjects(kind) == {errors[k].subject : k \in {j \in 1..Len(errors) : errors[j].by = kind}}

\* The failure of token i was printed with the path the loop variable held: the
\* token itself or, for a URL token, its destination in the downloads directory.
TokenFailureReported(i) ==
    \E e \in ErrorSubjects("console.error path") :
        \/ e = inputPaths[i]
        \/ isURL(inputPaths[i]) /\ dirname(e) = downloadDir

IsPrefix(s, t) == Len(s) <= Len(t) /\ SubSeq(t, 1, Len(s)) = s

OrderingInState ==
    /\ Len(processedStats) = Len(OkAttempts)
    /\ \A k \in 1..Len(processedStats) :
          processedStats[k].inputPath = OkAttempts[k].inputPath
    /\ \A j, k \in 1..Len(attempts) :
          j < k => \/ attempts[j].token < attempts[k].token
                   \/ /\ attempts[j].token = attempts[k].token
                      /\ attempts[j].file < attempts[k].file
    /\ pc = "dirLoop" =>
          \A k \in AttemptsOf(tokenIdx) :
              attempts[k].inputPath = join(inputPath, imageFiles[attempts[k].file])
    /\ report.printed =>
          /\ Len(report.lines) = Len(processedStats)
          /\ \A k \in 1..Len(report.lines) :
                /\ report.lines[k].index = k
                /\ report.lines[k].fileName = basename(processedStats[k].inputPath)

(***************************************************************************)
(* C2  Ordering.  In every state processedStats lists, in order, the input *)
(* paths of the successful processImage calls; the calls were made in      *)
(* token order and, inside a directory, in the order of its listing; the   *)
(* report's blocks are numbered 1..n in that order; and no step removes or *)
(* reorders a record (processedStats only grows at its end).               *)
(***************************************************************************)
C2_Ordering ==
    /\ []OrderingInState
    /\ [][IsPrefix(processedStats, processedStats')]_vars

\* Two records from two tokens with a failed file of the directory between
\* them in the input order.
C2_Witness ==
    /\ Len(processedStats) = 2
    /\ Len(attempts) = 3
    /\ attempts[1].ok /\ attempts[1].token = 1
    /\ ~attempts[2].ok /\ attempts[2].token = 2
    /\ attempts[3].ok /\ attempts[3].token = 2
    /\ report.printed

(***************************************************************************)
(* C4  Running totals.  In every state totalOriginalBytes is the sum of    *)
(* originalSize over processedStats and totalSavedBytes the sum of         *)
(* originalSize - optimizedSize, so the reported total after is the sum of *)
(* optimizedSize; processedStats holds a record per successful call only,  *)
(* so a failed file leaves the records and both totals as they were.       *)
(***************************************************************************)
C4_RunningTotals ==
    /\ totalOriginalBytes = SumOriginal(processedStats)
    /\ totalSavedBytes = SumOriginal(processedStats) - SumOptimized(processedStats)
    /\ totalOriginalBytes - totalSavedBytes = SumOptimized(processedStats)
    /\ Len(processedStats) = Len(OkAttempts)
    /\ (report.printed /\ report.totals # <<>>) =>
          /\ report.totals[1].before = formatFileSize(SumOriginal(processedStats))
          /\ report.totals[1].after = formatFileSize(SumOptimized(processedStats))

\* Successes and a failure interleaved, the report printed.
C4_Witness ==
    /\ report.printed
    /\ Len(processedStats) = 2
    /\ \E k \in 1..Len(attempts) : ~attempts[k].ok
    /\ totalSavedBytes # 0
    /\ processedStats[1].originalSize # processedStats[2].originalSize

(***************************************************************************)
(* C7  Setup-phase abort.  A rejected dimensions answer ends the run as    *)
(* failed with nothing done: no fetch, no directory listing, no            *)
(* processImage call, no error line, no report, the records, the totals    *)
(* and the disk as at the start; and the readline interface is closed      *)
(* whenever the run has ended.                                             *)
(***************************************************************************)
C7_SetupAbort ==
    /\ (shouldCrop /\ cropDimensions # <<>> /\ dimensionsRejected(cropDimensions)) =>
          pc = "done" /\ outcome = "failed"
    /\ outcome = "failed" =>
          /\ pc = "done"
          /\ fetches = <<>> /\ attempts = <<>> /\ errors = <<>>
          /\ imageFiles = <<>> /\ tokenIdx = 1 /\ inputPath = NoPath
          /\ processedStats = <<>> /\ totalSavedBytes = 0 /\ totalOriginalBytes = 0
          /\ report = NoReport
          /\ files = InitialFiles /\ dirs = InitialDirs
    /\ pc = "done" => rlClosed
    /\ outcome = "completed" => rlClosed /\ report.printed

\* The run ended on a rejected dimensions answer with two tokens waiting.
C7_Witness ==
    /\ outcome = "failed"
    /\ rlClosed
    /\ Len(inputPaths) = 2
    /\ dimensionsRejected(cropDimensions)

(***************************************************************************)
(* C3  URL resolution.  Every fetch goes to the URL the user typed; a      *)
(* finished URL token whose remote answered ok became one file in the      *)
(* downloads directory that was handed to processImage, and one whose      *)
(* remote did not answer ok failed alone, with its message.                *)
(***************************************************************************)
C3_UrlResolution ==
    /\ \A k \in 1..Len(fetches) : fetches[k].target = inputPaths[fetches[k].token]
    /\ \A i \in DoneTokens :
          isURL(inputPaths[i]) =>
              /\ \E k \in 1..Len(fetches) : fetches[k].token = i
              /\ IF RemoteOk(inputPaths[i])
                 THEN /\ Cardinality(AttemptsOf(i)) = 1
                      /\ \A k \in AttemptsOf(i) :
                            /\ dirname(attempts[k].inputPath) = downloadDir
                            /\ attempts[k].inputPath \in DOMAIN files
                 ELSE AttemptsOf(i) = {} /\ TokenFailureReported(i)

InQualityRange(q) == ~q.nan /\ MinQuality <= q.val /\ q.val <= MaxQuality

(***************************************************************************)
(* C5  Quality clamping.  The quality handed to every processImage call is *)
(* an integer in [0,100].                                                  *)
(***************************************************************************)
C5_QualityClamped ==
    \A k \in 1..Len(attempts) : InQualityRange(attempts[k].quality)

IsPositive(n) == ~n.nan /\ n.val > 0

(***************************************************************************)
(* C6  Crop validation.  Every crop box that reaches a processImage call   *)
(* has a positive integer width and a positive integer height; any other   *)
(* dimensions answer ended the run before the loop.                        *)
(***************************************************************************)
C6_CropValidated ==
    /\ (shouldCrop /\ pc \in {"loop", "dirLoop"}) =>
          /\ Len(cropDimensions) = 2
          /\ IsPositive(parseInt(cropDimensions[1]))
          /\ IsPositive(parseInt(cropDimensions[2]))
    /\ \A k \in 1..Len(attempts) :
          attempts[k].crop # <<>> =>
              IsPositive(attempts[k].crop[1].width) /\ IsPositive(attempts[k].crop[1].height)

(***************************************************************************)
(* C8  Reported output directory.  The directory printed at the end of the *)
(* report is the output directory processImage used for the files of the   *)
(* first token.                                                            *)
(***************************************************************************)
C8_ReportedOutputDir ==
    report.printed =>
        \A k \in AttemptsOf(1) : report.outputDir[1] = dirname(attempts[k].outputPath)

WellFormatted(b, f) ==
    /\ f.unit = "B" <=> b < KB
    /\ f.unit = "KB" <=> (KB <= b /\ b < KB * KB)
    /\ f.unit = "MB" <=> b >= KB * KB
    /\ f.num >= 0

(***************************************************************************)
(* C9  Size formatting in the report.  Every size the report prints has    *)
(* the unit of its byte count (B below 1024, KB below 1024 * 1024, MB      *)
(* from there) and a number that is not negative.                          *)
(***************************************************************************)
C9_SizeFormatting ==
    report.printed =>
        /\ \A k \in 1..Len(report.lines) :
              /\ WellFormatted(processedStats[k].originalSize, report.lines[k].before)
              /\ WellFormatted(processedStats[k].optimizedSize, report.lines[k].after)
        /\ report.totals # <<>> =>
              /\ WellFormatted(totalOriginalBytes, report.totals[1].before)
              /\ WellFormatted(totalOriginalBytes - totalSavedBytes, report.totals[1].after)
              /\ WellFormatted(totalSavedBytes, report.totals[1].saved)

(***************************************************************************)
(* C10  Output uniqueness.  Two records of processedStats that come from   *)
(* different source files name different output files.                     *)
(***************************************************************************)
C10_OutputUniqueness ==
    \A j, k \in 1..Len(processedStats) :
        processedStats[j].inputPath # processedStats[k].inputPath =>
            processedStats[j].outputPath # processedStats[k].outputPath

====
